---- MODULE Spec2Model ----
(***************************************************************************)
(* PitchSnitch (src/app.py): one Streamlit page run of main(), the         *)
(* HackathonIdeaCoach.analyze_idea call it makes, and the interpretation   *)
(* of the LLM reply by _parse_claude_response.                             *)
(*                                                                         *)
(* Text is a sequence of symbols.  A symbol is a record [k, v]: a          *)
(* punctuation character of JSON (k = "p"), a string literal (k = "s",     *)
(* v its content), a number literal (k = "n", v its digits) or any other   *)
(* character (k = "c").  String literals of the model contain no brace     *)
(* characters, so str.find('{') and str.rfind('}') see exactly the         *)
(* punctuation symbols.                                                    *)
(***************************************************************************)
EXTENDS Integers, Sequences, FiniteSets, TLC

VARIABLES env_key, pc, coach, form, requests, parse_calls, errors,
          reply, outcome, response, data, result, rendered

vars == <<env_key, pc, coach, form, requests, parse_calls, errors,
          reply, outcome, response, data, result, rendered>>

----------------------------------------------------------------------------
(* Bounds of the model. *)

\* longest "scores" array the LLM reply carries
MaxScores == 2
\* longest "risk_flags" array the LLM reply carries
MaxList == 1

----------------------------------------------------------------------------
(* Symbols and Python values. *)

P(c) == [k |-> "p", v |-> c]
S(x) == [k |-> "s", v |-> x]
N(d) == [k |-> "n", v |-> d]
C(c) == [k |-> "c", v |-> c]

\* the int a JSON number literal denotes
NumVal(d) == CASE d = "0" -> 0 [] d = "1" -> 1 [] d = "2" -> 2
               [] d = "3" -> 3 [] d = "4" -> 4 [] d = "5" -> 5

Digits(n) == CASE n = 0 -> "0" [] n = 1 -> "1" [] n = 2 -> "2"
               [] n = 3 -> "3" [] n = 4 -> "4" [] n = 5 -> "5"

\* Python values: str, int, list, dict
Str(x) == [t |-> "str", s |-> x]
Num(n) == [t |-> "num", n |-> n]
Arr(q) == [t |-> "arr", a |-> q]
Obj(f) == [t |-> "obj", o |-> f]

EmptyMap == [x \in {} |-> x]

\* a float, kept exactly as a fraction in lowest terms (den > 0)
RECURSIVE Gcd(_, _)
Gcd(a, b) == IF b = 0 THEN a ELSE Gcd(b, a % b)

TrueDiv(a, b) == LET g == Gcd(a, b) IN
                 IF a = 0 THEN [num |-> 0, den |-> 1]
                 ELSE [num |-> a \div g, den |-> b \div g]

Float(n) == [num |-> n, den |-> 1]

----------------------------------------------------------------------------
(* str.find, str.rfind and slicing, with Python's 0-based indices. *)

Min(a, b) == IF a < b THEN a ELSE b
Max(a, b) == IF a > b THEN a ELSE b

\* response.find(c): index of the first occurrence, -1 when there is none
find(s, c) ==
    LET hits == {i \in 1..Len(s) : s[i] = P(c)}
    IN IF hits = {} THEN -1
       ELSE (CHOOSE i \in hits : \A j \in hits : i <= j) - 1

\* response.rfind(c): index of the last occurrence, -1 when there is none
rfind(s, c) ==
    LET hits == {i \in 1..Len(s) : s[i] = P(c)}
    IN IF hits = {} THEN -1
       ELSE (CHOOSE i \in hits : \A j \in hits : i >= j) - 1

\* s[a:b]: a negative index counts from the end, both are clamped to 0..len
Slice(s, a, b) ==
    LET n  == Len(s)
        lo == IF a < 0 THEN Max(n + a, 0) ELSE Min(a, n)
        hi == IF b < 0 THEN Max(n + b, 0) ELSE Min(b, n)
    IN IF lo >= hi THEN <<>> ELSE SubSeq(s, lo + 1, hi)

----------------------------------------------------------------------------
(* json.loads: a recursive-descent parse of one JSON value that must use   *)
(* the whole text.  The parser returns [ok, val, pos]; pos is the position *)
(* after what was parsed.                                                  *)

Fail == [ok |-> FALSE, val |-> Str(""), pos |-> 0]
Done(v, p) == [ok |-> TRUE, val |-> v, pos |-> p]

Sym(s, i) == IF i >= 1 /\ i <= Len(s) THEN s[i] ELSE C("EOF")

\* mode "value": the value that starts at s[i]
\* mode "elems": the rest of an array, acc being the elements read so far
\* mode "members": the rest of an object, acc being the members read so far
\*                 (a repeated key keeps its last value, as a Python dict does)
RECURSIVE Parse(_, _, _, _)
Parse(mode, s, i, acc) ==
    CASE mode = "value" ->
            LET c == Sym(s, i) IN
            CASE c.k = "s" -> Done(Str(c.v), i + 1)
              [] c.k = "n" -> Done(Num(NumVal(c.v)), i + 1)
              [] c = P("[") -> IF Sym(s, i + 1) = P("]")
                               THEN Done(Arr(<<>>), i + 2)
                               ELSE Parse("elems", s, i + 1, <<>>)
              [] c = P("{") -> IF Sym(s, i + 1) = P("}")
                               THEN Done(Obj(EmptyMap), i + 2)
                               ELSE Parse("members", s, i + 1, EmptyMap)
              [] OTHER -> Fail
      [] mode = "elems" ->
            LET r == Parse("value", s, i, <<>>) IN
            IF ~r.ok THEN Fail
            ELSE CASE Sym(s, r.pos) = P(",") ->
                         Parse("elems", s, r.pos + 1, Append(acc, r.val))
                   [] Sym(s, r.pos) = P("]") ->
                         Done(Arr(Append(acc, r.val)), r.pos + 1)
                   [] OTHER -> Fail
      [] mode = "members" ->
            IF Sym(s, i).k # "s" \/ Sym(s, i + 1) # P(":") THEN Fail
            ELSE LET r == Parse("value", s, i + 2, <<>>) IN
                 IF ~r.ok THEN Fail
                 ELSE LET m == (Sym(s, i).v :> r.val) @@ acc IN
                      CASE Sym(s, r.pos) = P(",") -> Parse("members", s, r.pos + 1, m)
                        [] Sym(s, r.pos) = P("}") -> Done(Obj(m), r.pos + 1)
                        [] OTHER -> Fail

json_loads(s) ==
    LET r == Parse("value", s, 1, <<>>) IN
    IF r.ok /\ r.pos = Len(s) + 1 THEN r ELSE Fail

----------------------------------------------------------------------------
(* The replies the LLM may give: a JSON object in the format the prompt    *)
(* asks for (or a defective one), possibly truncated, possibly wrapped in  *)
(* prose, a markdown fence or stray braces.                                *)

evaluation_dimensions ==
    << "Problem clarity", "User value", "Market size & urgency",
       "Differentiation/moat", "Technical feasibility in 48 hours",
       "Scalability path", "Data dependencies", "Risks & compliance" >>

TopKeys == << "executive_summary", "scores", "detailed_plan", "risk_flags",
              "build_checklist", "tech_stack", "pitch_deck" >>

AllKeys == {TopKeys[i] : i \in 1..Len(TopKeys)}

OptionalKeys == {"tech_stack", "pitch_deck"}

ScoreFields == {"dimension", "score", "reasoning"}

\* the top-level keys a reply carries: all, all but one, all but the optional
KeySets == {AllKeys} \cup {AllKeys \ {k} : k \in AllKeys}
                     \cup {AllKeys \ OptionalKeys}

\* one entry of "scores": complete with a score, or defective
EntryKinds ==
    {[kind |-> "full", val |-> v] : v \in {0, 5}} \cup
    {[kind |-> k, val |-> 3] :
        k \in {"noDimension", "noScore", "noReasoning", "extraKey", "strScore"}}

SeqsUpTo(X, n) == UNION {[1..m -> X] : m \in 0..n}

Payloads == [keys : KeySets, entries : SeqsUpTo(EntryKinds, MaxScores),
             nrisks : 0..MaxList]

RECURSIVE Join(_)
Join(parts) ==
    IF Len(parts) = 0 THEN <<>>
    ELSE IF Len(parts) = 1 THEN parts[1]
    ELSE parts[1] \o <<P(",")>> \o Join(Tail(parts))

Member(key, valueText) == <<S(key), P(":")>> \o valueText

EntryText(e, i) ==
    LET dim == Member("dimension", <<S(evaluation_dimensions[i])>>)
        sc  == Member("score", IF e.kind = "strScore" THEN <<S("high")>>
                               ELSE <<N(Digits(e.val))>>)
        rs  == Member("reasoning", <<S("because")>>)
        xt  == Member("weight", <<N("1")>>)
        parts == (IF e.kind = "noDimension" THEN <<>> ELSE <<dim>>) \o
                 (IF e.kind = "noScore" THEN <<>> ELSE <<sc>>) \o
                 (IF e.kind = "noReasoning" THEN <<>> ELSE <<rs>>) \o
                 (IF e.kind = "extraKey" THEN <<xt>> ELSE <<>>)
    IN <<P("{")>> \o Join(parts) \o <<P("}")>>

RiskName(i) == CASE i = 1 -> "risk 1" [] i = 2 -> "risk 2" [] OTHER -> "risk n"

ValueText(d, key) ==
    CASE key = "executive_summary" -> <<S("summary")>>
      [] key = "scores" ->
            <<P("[")>> \o Join([i \in 1..Len(d.entries) |-> EntryText(d.entries[i], i)])
                       \o <<P("]")>>
      [] key = "detailed_plan" -> <<S("plan")>>
      [] key = "risk_flags" ->
            <<P("[")>> \o Join([i \in 1..d.nrisks |-> <<S(RiskName(i))>>]) \o <<P("]")>>
      [] key = "build_checklist" -> <<P("["), S("task 1"), P(","), S("task 2"), P("]")>>
      [] key = "tech_stack" ->
            <<P("{"), S("Frontend"), P(":"), P("["), S("React"), P("]"), P("}")>>
      [] key = "pitch_deck" ->
            <<P("{"), S("slide1_problem"), P(":"), S("problem"), P("}")>>

Serialize(d) ==
    LET present == SelectSeq(TopKeys, LAMBDA k : k \in d.keys)
    IN <<P("{")>> \o Join([i \in 1..Len(present) |->
                              Member(present[i], ValueText(d, present[i]))])
                  \o <<P("}")>>

Prefixes == { <<>>, <<C("Here is the result:"), C("fence json")>>,
              <<P("{"), C("note")>>, <<P("}")>> }

Suffixes == { <<>>, <<C("fence"), C("Thanks!")>>, <<C("note"), P("}")>> }

Cuts == {"none", "truncated", "prose"}

\* the payloads that are also sent wrapped or cut
WrapPayloads ==
    {d \in Payloads : /\ d.keys = AllKeys
                      /\ d.nrisks = 0
                      /\ \/ Len(d.entries) <= 1
                         \/ \A i \in 1..Len(d.entries) : d.entries[i].kind = "full"}

Replies ==
    {[desc |-> d, prefix |-> <<>>, suffix |-> <<>>, cut |-> "none"] : d \in Payloads}
    \cup [desc : WrapPayloads, prefix : Prefixes, suffix : Suffixes, cut : Cuts]

Body(r) ==
    LET full == Serialize(r.desc) IN
    CASE r.cut = "none" -> full
      [] r.cut = "truncated" -> SubSeq(full, 1, Len(full) - 1)
      [] r.cut = "prose" -> <<C("Sorry, I cannot help with that.")>>

ReplyText(r) == r.prefix \o Body(r) \o r.suffix

NoReply == [desc |-> [keys |-> {}, entries |-> <<>>, nrisks |-> 0],
            prefix |-> <<>>, suffix |-> <<>>, cut |-> "prose"]

----------------------------------------------------------------------------
(* HackathonIdeaCoach._create_empty_result and _parse_claude_response.     *)
(* An exception is the name of its class; "none" means nothing was raised. *)

\* _create_empty_result that reports the failure as a risk flag
create_empty_result_flagged ==
    [executive_summary |-> Str("Analysis failed"),
     scores            |-> <<>>,
     detailed_plan     |-> Str(""),
     risk_flags        |-> Arr(<<Str("Analysis failed")>>),
     build_checklist   |-> Arr(<<>>),
     tech_stack        |-> Obj(EmptyMap),
     pitch_deck        |-> Obj(EmptyMap),
     overall_score     |-> Float(0)]

create_empty_result ==
    [executive_summary |-> Str("Analysis failed"),
     scores            |-> <<>>,
     detailed_plan     |-> Str(""),
     risk_flags        |-> Arr(<<>>),
     build_checklist   |-> Arr(<<>>),
     tech_stack        |-> Obj(EmptyMap),
     pitch_deck        |-> Obj(EmptyMap),
     overall_score     |-> Float(0)]

HasKey(d, key) == d.t = "obj" /\ key \in DOMAIN d.o

\* data.get(key, '') in place of data[key]
Subscript_get(d, key) ==
    [exc |-> "none", val |-> IF HasKey(d, key) THEN d.o[key] ELSE Str("")]

\* data[key]: KeyError when the key is absent
Subscript(d, key) ==
    IF HasKey(d, key) THEN [exc |-> "none", val |-> d.o[key]]
    ELSE [exc |-> IF d.t = "obj" THEN "KeyError" ELSE "TypeError", val |-> Str("")]

\* data.get(key, {})
Get(d, key) == IF HasKey(d, key) THEN d.o[key] ELSE Obj(EmptyMap)

\* EvaluationScore(**score): the keywords must be exactly the three fields
EvaluationScore(score) ==
    IF score.t = "obj" /\ DOMAIN score.o = ScoreFields
    THEN [exc |-> "none",
          val |-> [dimension |-> score.o["dimension"],
                   score     |-> score.o["score"],
                   reasoning |-> score.o["reasoning"]]]
    ELSE [exc |-> "TypeError", val |-> Str("")]

\* [EvaluationScore(**score) for score in data['scores']]; of the values
\* json.loads yields, a list is the one whose iteration can succeed with
\* entries (a str or dict yields str items, which ** rejects)
BuildScores(v) ==
    IF v.t # "arr" THEN [exc |-> "TypeError", val |-> <<>>]
    ELSE IF \E i \in 1..Len(v.a) : EvaluationScore(v.a[i]).exc # "none"
         THEN [exc |-> "TypeError", val |-> <<>>]
         ELSE [exc |-> "none",
               val |-> [i \in 1..Len(v.a) |-> EvaluationScore(v.a[i]).val]]

RECURSIVE SumScores(_)
SumScores(scores) ==
    IF Len(scores) = 0 THEN 0 ELSE scores[1].score.n + SumScores(Tail(scores))

\* the mean taken over the eight evaluation dimensions, not over the scores
OverallScore_dims(scores) ==
    IF \E i \in 1..Len(scores) : scores[i].score.t # "num"
    THEN [exc |-> "TypeError", val |-> Float(0)]
    ELSE [exc |-> "none",
          val |-> TrueDiv(SumScores(scores), Len(evaluation_dimensions))]

\* sum(score.score for score in scores) / len(scores)
OverallScore(scores) ==
    IF \E i \in 1..Len(scores) : scores[i].score.t # "num"
    THEN [exc |-> "TypeError", val |-> Float(0)]
    ELSE IF Len(scores) = 0
         THEN [exc |-> "ZeroDivisionError", val |-> Float(0)]
         ELSE [exc |-> "none", val |-> TrueDiv(SumScores(scores), Len(scores))]

\* the slice without the "+ 1": the last '}' is left out
ExtractJson_short(text) ==
    LET start == find(text, "{")
        end   == rfind(text, "}")
    IN Slice(text, start, end)

\* response[response.find('{') : response.rfind('}') + 1]
ExtractJson(text) ==
    LET start == find(text, "{")
        end   == rfind(text, "}") + 1
    IN Slice(text, start, end)

Raised(e, d) == [exc |-> e, data |-> d, val |-> create_empty_result]

FirstRaised(es) ==
    LET bad == {i \in 1..Len(es) : es[i] # "none"} IN
    IF bad = {} THEN "none" ELSE es[CHOOSE i \in bad : \A j \in bad : i <= j]

\* the remaining required fields are read, then the optional
\* ones, and the AnalysisResult is returned
BuildResult(d, scores, overall) ==
    IF FirstRaised(<<Subscript(d, "executive_summary").exc,
                     Subscript(d, "detailed_plan").exc,
                     Subscript(d, "risk_flags").exc,
                     Subscript(d, "build_checklist").exc>>) # "none"
    THEN Raised(FirstRaised(<<Subscript(d, "executive_summary").exc,
                              Subscript(d, "detailed_plan").exc,
                              Subscript(d, "risk_flags").exc,
                              Subscript(d, "build_checklist").exc>>), <<d>>)
    ELSE [exc  |-> "none",
          data |-> <<d>>,
          val  |-> [executive_summary |-> Subscript(d, "executive_summary").val,
                    scores            |-> scores,
                    detailed_plan     |-> Subscript(d, "detailed_plan").val,
                    risk_flags        |-> Subscript(d, "risk_flags").val,
                    build_checklist   |-> Subscript(d, "build_checklist").val,
                    tech_stack        |-> Get(d, "tech_stack"),
                    pitch_deck        |-> Get(d, "pitch_deck"),
                    overall_score     |-> overall]]

\* overall_score = sum(...) / len(scores)
WithOverall(d, scores, overall) ==
    IF overall.exc # "none" THEN Raised(overall.exc, <<d>>)
    ELSE BuildResult(d, scores, overall.val)

\* scores = [EvaluationScore(**score) for score in ...]
WithScores(d, scores) ==
    IF scores.exc # "none" THEN Raised(scores.exc, <<d>>)
    ELSE WithOverall(d, scores.val, OverallScore(scores.val))

\* data['scores']
WithData(d, sc) ==
    IF sc.exc # "none" THEN Raised(sc.exc, <<d>>)
    ELSE WithScores(d, BuildScores(sc.val))

\* data = json.loads(json_str)
WithLoaded(loaded) ==
    IF ~loaded.ok THEN Raised("JSONDecodeError", <<>>)
    ELSE WithData(loaded.val, Subscript(loaded.val, "scores"))

\* the body of the try block, in evaluation order
TryBody(text) == WithLoaded(json_loads(ExtractJson(text)))

\* the handler of _parse_claude_response ending in "raise"
parse_except_reraise(e) ==
    [result   |-> create_empty_result,
     notified |-> <<[by |-> "_parse_claude_response", exc |-> e]>>,
     raised   |-> e]

\* except Exception as e: st.error(...); return self._create_empty_result()
parse_except(e) ==
    [result   |-> create_empty_result,
     notified |-> <<[by |-> "_parse_claude_response", exc |-> e]>>,
     raised   |-> "none"]

parse_claude_response(text) ==
    LET b == TryBody(text) IN
    IF b.exc = "none"
    THEN [result |-> b.val, notified |-> <<>>, raised |-> "none", data |-> b.data]
    ELSE [result   |-> parse_except(b.exc).result,
          notified |-> parse_except(b.exc).notified,
          raised   |-> parse_except(b.exc).raised,
          data     |-> b.data]

----------------------------------------------------------------------------
(* main() and HackathonIdeaCoach.analyze_idea.                             *)

\* os.getenv("ANTHROPIC_API_KEY"): <<>> is None, otherwise <<value>>
EnvValues == { <<>>, <<"">>, <<"sk-ant-key">> }

\* os.getenv("ANTHROPIC_API_KEY") is None
not_getenv_none(env) == env = <<>>

\* not os.getenv("ANTHROPIC_API_KEY")
not_getenv(env) == env = <<>> \/ env[1] = ""

\* the form's widgets; "" is an empty text field (the two sliders always
\* hold one of their options and take no part in any condition)
Forms == [submitted : BOOLEAN, idea : {"", "an idea"},
          target_users : {"", "students"}, goals : {"", "win"}]

NoForm == [submitted |-> FALSE, idea |-> "", target_users |-> "", goals |-> ""]

\* submitted and idea and target_users and goals
FormAccepted(f) == f.submitted /\ f.idea # "" /\ f.target_users # "" /\ f.goals # ""

\* analyze_idea with "except anthropic.APIError" in place of "except Exception"
analyze_except_api_only(e) ==
    IF e = "APIError"
    THEN [result   |-> <<create_empty_result>>,
          notified |-> <<[by |-> "analyze_idea", exc |-> e]>>,
          raised   |-> "none"]
    ELSE [result |-> <<>>, notified |-> <<>>, raised |-> e]

\* except Exception as e: st.error(...); return self._create_empty_result()
analyze_except(e) ==
    [result   |-> <<create_empty_result>>,
     notified |-> <<[by |-> "analyze_idea", exc |-> e]>>,
     raised   |-> "none"]

Init ==
    /\ env_key \in EnvValues
    /\ pc = "main"
    /\ coach = FALSE
    /\ form = NoForm
    /\ requests = 0
    /\ parse_calls = 0
    /\ errors = <<>>
    /\ reply = NoReply
    /\ outcome = "none"
    /\ response = <<>>
    /\ data = <<>>
    /\ result = <<>>
    /\ rendered = FALSE

\* main: the API key check, st.stop() or the construction of the coach
CheckApiKey ==
    /\ pc = "main"
    /\ IF not_getenv(env_key)
       THEN /\ errors' = Append(errors, [by |-> "main", exc |-> "ANTHROPIC_API_KEY"])
            /\ pc' = "stopped"
            /\ coach' = coach
       ELSE /\ coach' = TRUE
            /\ pc' = "form"
            /\ errors' = errors
    /\ UNCHANGED <<env_key, form, requests, parse_calls, reply, outcome,
                   response, data, result, rendered>>

\* main: the form and the condition that guards the analysis
SubmitForm ==
    /\ pc = "form"
    /\ \E f \in Forms :
          /\ form' = f
          /\ pc' = IF FormAccepted(f) THEN "analyze" ELSE "footer"
    /\ UNCHANGED <<env_key, coach, requests, parse_calls, errors, reply,
                   outcome, response, data, result, rendered>>

\* analyze_idea: the prompt is built and the request is issued
CallLLM ==
    /\ pc = "analyze"
    /\ coach
    /\ requests' = requests + 1
    /\ pc' = "awaiting"
    /\ UNCHANGED <<env_key, coach, form, parse_calls, errors, reply, outcome,
                   response, data, result, rendered>>

\* what analyze_idea does with an exception raised inside its try block
Handle(e, notifiedSoFar) ==
    LET h == analyze_except(e) IN
    /\ errors' = errors \o notifiedSoFar \o h.notified
    /\ result' = h.result
    /\ pc' = IF h.raised = "none" THEN "returned" ELSE "crashed"

\* a transport failure that sends analyze_idea back to issue the request again
LLMRaises_retry ==
    /\ pc = "awaiting"
    /\ outcome' = "transport"
    /\ IF requests < 2
       THEN /\ pc' = "analyze"
            /\ UNCHANGED <<errors, result>>
       ELSE Handle("APIError", <<>>)
    /\ UNCHANGED <<env_key, coach, form, requests, parse_calls, reply,
                   response, data, rendered>>

\* client.messages.create raises (network, authentication, rate limit, ...)
LLMRaises ==
    /\ pc = "awaiting"
    /\ outcome' = "transport"
    /\ Handle("APIError", <<>>)
    /\ UNCHANGED <<env_key, coach, form, requests, parse_calls, reply,
                   response, data, rendered>>

\* the call returns a message without content: response.content[0] raises
LLMReturnsNoText ==
    /\ pc = "awaiting"
    /\ outcome' = "nocontent"
    /\ Handle("IndexError", <<>>)
    /\ UNCHANGED <<env_key, coach, form, requests, parse_calls, reply,
                   response, data, rendered>>

\* the call returns a message whose first content block carries text
LLMReturnsText ==
    /\ pc = "awaiting"
    /\ \E r \in Replies :
          /\ reply' = r
          /\ response' = <<ReplyText(r)>>
    /\ outcome' = "text"
    /\ pc' = "parse"
    /\ UNCHANGED <<env_key, coach, form, requests, parse_calls, errors,
                   data, result, rendered>>

\* analyze_idea: result = self._parse_claude_response(text); return result
ParseResponse ==
    /\ pc = "parse"
    /\ parse_calls' = parse_calls + 1
    /\ LET r == parse_claude_response(response[1]) IN
          /\ data' = r.data
          /\ IF r.raised = "none"
             THEN /\ result' = <<r.result>>
                  /\ errors' = errors \o r.notified
                  /\ pc' = "returned"
             ELSE Handle(r.raised, r.notified)
    /\ UNCHANGED <<env_key, coach, form, requests, reply, outcome, response,
                   rendered>>

\* main: the report is displayed when result.overall_score > 0
Render ==
    /\ pc = "returned"
    /\ rendered' = (result[1].overall_score.num > 0)
    /\ pc' = "footer"
    /\ UNCHANGED <<env_key, coach, form, requests, parse_calls, errors, reply,
                   outcome, response, data, result>>

\* main: the footer ends the page run
Footer ==
    /\ pc = "footer"
    /\ pc' = "done"
    /\ UNCHANGED <<env_key, coach, form, requests, parse_calls, errors, reply,
                   outcome, response, data, result, rendered>>

Next ==
    \/ CheckApiKey
    \/ SubmitForm
    \/ CallLLM
    \/ LLMRaises
    \/ LLMReturnsNoText
    \/ LLMReturnsText
    \/ ParseResponse
    \/ Render
    \/ Footer

Spec == Init /\ [][Next]_vars

----------------------------------------------------------------------------
(* Vocabulary of the properties. *)

\* analyze_idea has returned to main
Analysed == requests > 0 /\ pc \in {"returned", "footer", "done"}

\* _parse_claude_response has returned to analyze_idea
ParseReturned == parse_calls > 0 /\ pc \in {"returned", "footer", "done"}

ResultFields == {"executive_summary", "scores", "detailed_plan", "risk_flags",
                 "build_checklist", "tech_stack", "pitch_deck", "overall_score"}

Positions(text, c) == {i \in 1..Len(text) : text[i] = P(c)}

NoOpenBrace(text) == Positions(text, "{") = {}

\* the text from the first '{' to the last '}', both included
Candidate(text) ==
    LET o == Positions(text, "{")
        c == Positions(text, "}")
    IN IF o = {} \/ c = {} THEN <<>>
       ELSE SubSeq(text, CHOOSE i \in o : \A j \in o : i <= j,
                         CHOOSE i \in c : \A j \in c : i >= j)

BraceFree(text) == Positions(text, "{") = {} /\ Positions(text, "}") = {}

RECURSIVE SumOf(_)
SumOf(q) == IF Len(q) = 0 THEN 0 ELSE Head(q) + SumOf(Tail(q))

\* the try block of analyze_idea or of _parse_claude_response raised
Failed ==
    \/ outcome \in {"transport", "nocontent"}
    \/ outcome = "text" /\ TryBody(response[1]).exc # "none"

----------------------------------------------------------------------------
(* C1: analyze_idea never lets an exception escape to its caller: whether  *)
(* the LLM call fails, returns no usable text or returns any text, it      *)
(* returns an AnalysisResult, and on every failure path that value is the  *)
(* sentinel of _create_empty_result.                                       *)
C1_NeverRaises ==
    /\ pc # "crashed"
    /\ Analysed =>
          /\ Len(result) = 1
          /\ DOMAIN result[1] = ResultFields
          /\ (Failed \/ Len(errors) > 0) => result[1] = create_empty_result

\* the reply carried no content block, and analyze_idea still returned
C1_Witness ==
    /\ Analysed
    /\ outcome = "nocontent"
    /\ result = <<create_empty_result>>

----------------------------------------------------------------------------
(* C2: given text with no '{' at all, or whose substring from the first    *)
(* '{' to the last '}' is not valid JSON, _parse_claude_response does not  *)
(* raise and returns the sentinel.                                         *)

MalformedReply ==
    /\ ParseReturned
    /\ \/ NoOpenBrace(response[1])
       \/ ~json_loads(Candidate(response[1])).ok

C2_WitnessNoBrace ==
    /\ MalformedReply
    /\ NoOpenBrace(response[1])
    /\ Len(response[1]) > 0
    /\ response[1][Len(response[1])] = P("}")

----------------------------------------------------------------------------
----------------------------------------------------------------------------
(* C4: when the payload's scores array is empty and every other required   *)
(* field is present, _parse_claude_response computes overall_score 0.0     *)
(* without dividing by zero and returns the result populated from the      *)
(* payload, with no error notification.                                    *)

RequiredKeys == {"executive_summary", "scores", "detailed_plan", "risk_flags",
                 "build_checklist"}

EmptyScoresPayload ==
    /\ ParseReturned
    /\ Len(data) = 1
    /\ \A key \in RequiredKeys : HasKey(data[1], key)
    /\ data[1].o["scores"] = Arr(<<>>)

C4_EmptyScoresPopulated ==
    EmptyScoresPayload =>
        /\ result[1].overall_score = Float(0)
        /\ result[1].scores = <<>>
        /\ result[1].executive_summary = data[1].o["executive_summary"]
        /\ result[1].detailed_plan = data[1].o["detailed_plan"]
        /\ result[1].risk_flags = data[1].o["risk_flags"]
        /\ result[1].build_checklist = data[1].o["build_checklist"]
        /\ errors = <<>>

----------------------------------------------------------------------------
(* C5: results are all-or-nothing: when the candidate parses as a JSON     *)
(* object and a required top-level field (scores, detailed_plan,           *)
(* risk_flags, build_checklist) is missing, or an entry of scores lacks    *)
(* dimension, score or reasoning, the result is the sentinel; no returned  *)
(* result mixes payload values with sentinel values.                       *)

MissingRequired ==
    \E key \in {"scores", "detailed_plan", "risk_flags", "build_checklist"} :
        ~HasKey(data[1], key)

EntryLacksField ==
    /\ HasKey(data[1], "scores")
    /\ data[1].o["scores"].t = "arr"
    /\ \E i \in 1..Len(data[1].o["scores"].a) :
          LET entry == data[1].o["scores"].a[i] IN
          entry.t = "obj" /\ ~(ScoreFields \subseteq DOMAIN entry.o)

\* every required field of the result is the payload's value
TakenFromPayload ==
    /\ \A key \in RequiredKeys : HasKey(data[1], key)
    /\ result[1].executive_summary = data[1].o["executive_summary"]
    /\ result[1].detailed_plan = data[1].o["detailed_plan"]
    /\ result[1].risk_flags = data[1].o["risk_flags"]
    /\ result[1].build_checklist = data[1].o["build_checklist"]
    /\ data[1].o["scores"].t = "arr"
    /\ Len(result[1].scores) = Len(data[1].o["scores"].a)
    /\ \A i \in 1..Len(result[1].scores) :
          LET entry == data[1].o["scores"].a[i] IN
          /\ entry.t = "obj"
          /\ ScoreFields \subseteq DOMAIN entry.o
          /\ result[1].scores[i] = [dimension |-> entry.o["dimension"],
                                    score     |-> entry.o["score"],
                                    reasoning |-> entry.o["reasoning"]]

C5_AllOrNothing ==
    ParseReturned =>
        /\ (Len(data) = 1 /\ data[1].t = "obj" /\ (MissingRequired \/ EntryLacksField))
              => result[1] = create_empty_result
        /\ result[1] = create_empty_result \/ (Len(data) = 1 /\ TakenFromPayload)

\* a JSON object with complete scores and no detailed_plan
C5_Witness ==
    /\ ParseReturned
    /\ Len(data) = 1
    /\ DOMAIN data[1].o = AllKeys \ {"detailed_plan"}
    /\ Len(data[1].o["scores"].a) > 0
    /\ ~EntryLacksField
    /\ result[1] = create_empty_result

----------------------------------------------------------------------------
(* C6: given a payload that has every required field but lacks tech_stack, *)
(* pitch_deck or both, _parse_claude_response returns a populated result   *)
(* in which each absent optional field is an empty mapping and every other *)
(* field is the payload's value, with no error notification.               *)

WellFormedEntries ==
    /\ data[1].o["scores"].t = "arr"
    /\ \A i \in 1..Len(data[1].o["scores"].a) :
          LET entry == data[1].o["scores"].a[i] IN
          /\ entry.t = "obj"
          /\ DOMAIN entry.o = ScoreFields
          /\ entry.o["score"].t = "num"

LacksOptional ==
    /\ ParseReturned
    /\ Len(data) = 1
    /\ \A key \in RequiredKeys : HasKey(data[1], key)
    /\ WellFormedEntries
    /\ \E key \in OptionalKeys : ~HasKey(data[1], key)

C6_OptionalDefault ==
    LacksOptional =>
        /\ result[1] # create_empty_result
        /\ TakenFromPayload
        /\ \A key \in OptionalKeys :
              result[1][key] = IF HasKey(data[1], key) THEN data[1].o[key]
                               ELSE Obj(EmptyMap)
        /\ errors = <<>>

----------------------------------------------------------------------------
(* C7: for a payload matching the full schema and for a prefix and a       *)
(* suffix without brace characters (empty, prose, a markdown fence),       *)
(* _parse_claude_response of prefix + payload + suffix returns what it     *)
(* returns for the bare payload, and that result reproduces every field of *)
(* the payload unchanged, the scores in order.                             *)

FullSchema(d) ==
    /\ d.keys = AllKeys
    /\ Len(d.entries) >= 1
    /\ \A i \in 1..Len(d.entries) : d.entries[i].kind = "full"

\* the fields of the payload that Serialize(d) writes out
PayloadFields(d) ==
    [executive_summary |-> Str("summary"),
     scores            |-> [i \in 1..Len(d.entries) |->
                               [dimension |-> Str(evaluation_dimensions[i]),
                                score     |-> Num(d.entries[i].val),
                                reasoning |-> Str("because")]],
     detailed_plan     |-> Str("plan"),
     risk_flags        |-> Arr([i \in 1..d.nrisks |-> Str(RiskName(i))]),
     build_checklist   |-> Arr(<<Str("task 1"), Str("task 2")>>),
     tech_stack        |-> Obj("Frontend" :> Arr(<<Str("React")>>)),
     pitch_deck        |-> Obj("slide1_problem" :> Str("problem"))]

WrappedFullPayload ==
    /\ ParseReturned
    /\ reply.cut = "none"
    /\ FullSchema(reply.desc)
    /\ BraceFree(reply.prefix)
    /\ BraceFree(reply.suffix)

C7_LosslessFenceTolerant ==
    WrappedFullPayload =>
        /\ result[1] = parse_claude_response(Serialize(reply.desc)).result
        /\ \A f \in DOMAIN PayloadFields(reply.desc) :
              result[1][f] = PayloadFields(reply.desc)[f]

\* the payload inside a markdown fence between two lines of prose
C7_Witness ==
    /\ WrappedFullPayload
    /\ reply.prefix = <<C("Here is the result:"), C("fence json")>>
    /\ reply.suffix = <<C("fence"), C("Thanks!")>>
    /\ Len(reply.desc.entries) = MaxScores
    /\ result[1] # create_empty_result

----------------------------------------------------------------------------
(* C8: each invocation of analyze_idea issues exactly one request to the   *)
(* LLM client whatever the outcome (no retry after a transport failure, no *)
(* repeat after a parse failure), and _parse_claude_response is invoked at *)
(* most once, only after the request has returned text.                    *)
C8_OneRequest ==
    /\ requests <= 1
    /\ pc \in {"awaiting", "parse", "returned"} => requests = 1
    /\ Analysed => requests = 1
    /\ parse_calls <= 1
    /\ parse_calls = 1 => requests = 1 /\ outcome = "text"
    /\ outcome \in {"transport", "nocontent"} => parse_calls = 0

\* no step after the request is issued issues another or parses again
C8_NoRepeat ==
    [][/\ requests = 1 => requests' = 1
       /\ parse_calls = 1 => parse_calls' = 1
       /\ parse_calls' > parse_calls => requests = 1 /\ outcome = "text"]_vars

\* a parse failure after the one request
C8_Witness ==
    /\ Analysed
    /\ requests = 1
    /\ parse_calls = 1
    /\ Len(errors) = 1

----------------------------------------------------------------------------
(* C9: in a page run where ANTHROPIC_API_KEY is absent or empty, an error  *)
(* message is shown and the run stops before the coach is constructed,     *)
(* before the form is processed and before any LLM request.                *)

KeyAbsentOrEmpty == env_key = <<>> \/ env_key = <<"">>

C9_CredentialGate ==
    KeyAbsentOrEmpty =>
        /\ pc \in {"main", "stopped"}
        /\ ~coach
        /\ form = NoForm
        /\ requests = 0
        /\ parse_calls = 0
        /\ pc = "stopped" =>
              errors = <<[by |-> "main", exc |-> "ANTHROPIC_API_KEY"]>>

\* the key is set to the empty string and the run has stopped
C9_Witness ==
    /\ env_key = <<"">>
    /\ pc = "stopped"
    /\ Len(errors) = 1

----------------------------------------------------------------------------
(* C10: every failed analysis emits exactly one st.error during the        *)
(* analyze_idea call, from analyze_idea's handler for a transport error    *)
(* and from _parse_claude_response's handler for a parse error (which      *)
(* analyze_idea does not report again); a successful analysis emits none.  *)
C10_SingleNotification ==
    Analysed =>
        IF Failed
        THEN /\ Len(errors) = 1
             /\ errors[1].by = IF outcome = "text" THEN "_parse_claude_response"
                               ELSE "analyze_idea"
        ELSE errors = <<>>

\* a reply whose scores array is empty: one notification, from the parser
C10_Witness ==
    /\ Analysed
    /\ outcome = "text"
    /\ errors = <<[by |-> "_parse_claude_response", exc |-> "ZeroDivisionError"]>>

----------------------------------------------------------------------------
(* C11: every submission that passes the non-empty-field check ends with   *)
(* exactly one user-visible outcome: a populated AnalysisResult is         *)
(* rendered as the report and no error notification was shown; the empty   *)
(* sentinel comes with an error notification and no report; no submission  *)
(* ends with neither a report nor an error.                                *)

\* the page run of an accepted submission is past the display of the result
SubmissionEnded == FormAccepted(form) /\ Analysed /\ pc \in {"footer", "done"}

C11_ExactlyOneOutcome ==
    SubmissionEnded =>
        /\ result[1] # create_empty_result => rendered /\ errors = <<>>
        /\ result[1] = create_empty_result => ~rendered /\ Len(errors) > 0
        /\ rendered \/ Len(errors) > 0

====
